---- MODULE Spec2Model ----
(***************************************************************************)
(* EBML / Matroska parser of music-metadata (MatroskaParser).              *)
(*                                                                         *)
(* The parser is one sequential async routine; the model runs it step by   *)
(* step over a byte stream `data` fixed at Init.  Numbers that may exceed  *)
(* 31 bits (element ids, lengths, unsigned leaf values) are kept as        *)
(* big-endian base-256 numerals (byte sequences without leading zeros).    *)
(* Strings are sequences of character codes.                               *)
(***************************************************************************)
EXTENDS Integers, Sequences, FiniteSets, TLC

\* ---------------------------------------------------------------- bounds
MaxIc == 10
MaxTracks == 2
MaxTags == 2
MaxBody == 10

\* ------------------------------------------------------- tagged JS values
Undefined == [t |-> "undefined", v |-> <<>>]
Raise(kind) == [t |-> "raise", v |-> kind]
Str(codes) == [t |-> "string", v |-> codes]
Buf(bytes) == [t |-> "buffer", v |-> bytes]
Bool(b) == [t |-> "boolean", v |-> b]
Float(fmt, bytes) == [t |-> "float", v |-> <<fmt, bytes>>]
Node(tree) == [t |-> "tree", v |-> tree]
List(trees) == [t |-> "list", v |-> trees]

RECURSIVE Strip(_)
Strip(bytes) ==
  IF bytes # <<>> /\ Head(bytes) = 0 THEN Strip(Tail(bytes)) ELSE bytes

\* a JS number holding an unsigned integer, as a numeral
Num(bytes) == [t |-> "number", v |-> Strip(bytes)]

\* value of a numeral as a machine integer; everything from 65536 up is
\* larger than any stream of the model and is represented by 65536
NumVal(numeral) ==
  IF Len(numeral) = 0 THEN 0
  ELSE IF Len(numeral) = 1 THEN numeral[1]
  ELSE IF Len(numeral) = 2 THEN numeral[1] * 256 + numeral[2]
  ELSE 65536

\* JS truthiness of a value
Truthy(x) ==
  CASE x.t = "undefined" -> FALSE
    [] x.t = "number" -> x.v # <<>>
    [] x.t = "string" -> x.v # <<>>
    [] x.t = "boolean" -> x.v
    [] OTHER -> TRUE

EmptyTree == [x \in {} |-> x]
Get(tree, name) == IF name \in DOMAIN tree THEN tree[name] ELSE Undefined
Put(tree, name, val) == (name :> val) @@ tree

\* ------------------------------------------------------- Buffer primitives
\* Buffer.readUIntBE(offset, byteLength): defined for byteLength 1..6; outside
\* that range the runtime either raises a RangeError or (older runtimes, no
\* argument check) computes with what it finds: undefined for byteLength 0,
\* the unclamped sum for 7 and 8.
readUIntBE(buf, offset, byteLength) ==
  IF byteLength \in 1..6
    THEN { Num(SubSeq(buf, offset + 1, offset + byteLength)) }
    ELSE IF byteLength = 0
      THEN { Raise("RangeError"), Undefined }
      ELSE { Raise("RangeError"), Num(SubSeq(buf, offset + 1, offset + byteLength)) }

Min(a, b) == IF a < b THEN a ELSE b

\* (msb & mask) !== 0 for a mask with at most one bit set
BitAnd(msb, mask) == IF mask > 0 /\ (msb \div mask) % 2 = 1 THEN mask ELSE 0

\* byte ^ bit for a one-bit mask
BitXor(byte, bit) == IF BitAnd(byte, bit) # 0 THEN byte - bit ELSE byte + bit

\* ------------------------------------------------------------ the schema
\* MatroskaDtd.elements: element id -> { name, container | value, multiple }
Container(id, name, multiple) ==
  [id |-> id, name |-> name, kind |-> "container", multiple |-> multiple]
Leaf(id, name, kind, multiple) ==
  [id |-> id, name |-> name, kind |-> kind, multiple |-> multiple]

elements(container) ==
  CASE container = "elements" ->
         { Container(<<\H1a, \H45, \Hdf, \Ha3>>, "ebml", FALSE),
           Container(<<\H18, \H53, \H80, \H67>>, "segment", FALSE) }
    [] container = "ebml" ->
         { Leaf(<<\H42, \H86>>, "ebmlVersion", "uint", FALSE),
           Leaf(<<\H42, \H82>>, "docType", "string", FALSE) }
    [] container = "segment" ->
         { Container(<<\H15, \H49, \Ha9, \H66>>, "info", FALSE),
           Container(<<\H16, \H54, \Hae, \H6b>>, "tracks", FALSE),
           Container(<<\H12, \H54, \Hc3, \H67>>, "tags", FALSE) }
    [] container = "info" ->
         { Leaf(<<\H73, \Ha4>>, "uid", "uid", FALSE),
           Leaf(<<\H2a, \Hd7, \Hb1>>, "timecodeScale", "uint", FALSE),
           Leaf(<<\H44, \H89>>, "duration", "float", FALSE) }
    [] container = "tracks" ->
         { Container(<<\Hae>>, "entries", TRUE) }
    [] container = "entries" ->
         { Leaf(<<\H83>>, "trackType", "uint", FALSE),
           Leaf(<<\H88>>, "flagDefault", "bool", FALSE),
           Leaf(<<\H86>>, "codecID", "string", FALSE),
           Container(<<\He1>>, "audio", FALSE) }
    [] container = "audio" ->
         { Leaf(<<\Hb5>>, "samplingFrequency", "float", FALSE),
           Leaf(<<\H9f>>, "channels", "uint", FALSE) }
    [] container = "tags" ->
         { Container(<<\H73, \H73>>, "tag", TRUE) }
    [] container = "tag" ->
         { Container(<<\H63, \Hc0>>, "target", FALSE),
           Container(<<\H67, \Hc8>>, "simpleTags", TRUE) }
    [] container = "target" ->
         { Leaf(<<\H63, \Hc5>>, "tagTrackUID", "uid", TRUE),
           Leaf(<<\H68, \Hca>>, "targetTypeValue", "uint", FALSE),
           Leaf(<<\H63, \Hca>>, "targetType", "string", FALSE) }
    [] container = "simpleTags" ->
         { Leaf(<<\H45, \Ha3>>, "name", "string", FALSE),
           Leaf(<<\H44, \H87>>, "string", "string", FALSE),
           Leaf(<<\H44, \H85>>, "binary", "binary", FALSE),
           Leaf(<<\H44, \H84>>, "default", "bool", FALSE) }
    [] OTHER -> {}

\* container[element.id]: the set holding the schema node, empty when unmapped
Lookup(container, id) == { n \in elements(container) : n.id = id }

\* TrackType.audio
TrackTypeAudio == <<2>>

\* TargetType[value]: the reverse mapping of the numeric enum
TargetType(value) ==
  CASE value = <<10>> -> Str(<<115, 104, 111, 116>>)                 \* shot
    [] value = <<20>> -> Str(<<115, 99, 101, 110, 101>>)             \* scene
    [] value = <<30>> -> Str(<<116, 114, 97, 99, 107>>)              \* track
    [] value = <<40>> -> Str(<<112, 97, 114, 116>>)                  \* part
    [] value = <<50>> -> Str(<<97, 108, 98, 117, 109>>)              \* album
    [] value = <<60>> -> Str(<<101, 100, 105, 116, 105, 111, 110>>)  \* edition
    [] value = <<70>> -> Str(<<99, 111, 108, 108, 101, 99, 116, 105, 111, 110>>)
    [] OTHER -> Undefined

\* the label used when a tag names no target type
TargetTypeAlbum == Str(<<97, 108, 98, 117, 109>>)

\* ------------------------------------------------------------- the state
VARIABLES
  data,       \* the bytes of the stream (tokenizer input)
  position,   \* tokenizer.position
  padding,    \* this.padding
  pc,         \* where the parser is
  stack,      \* the active parseContainer calls, innermost last
  which,      \* readElement: which of the two vints is being read
  msb, mask, ic,    \* locals of readVintData
  idBuf, lenField,  \* locals of readElement
  element,    \* the header returned by readElement
  matroska,   \* the tree returned by the outermost parseContainer
  sink,       \* calls received by the metadata collector, in order
  err,        \* the error parse() was rejected with, "" if none
  last        \* the most recent leaf decode: header, positions, result

vars == <<data, position, padding, pc, stack, which, msb, mask, ic,
          idBuf, lenField, element, matroska, sink, err, last>>

fileSize == Len(data)
Top == stack[Len(stack)]

RootType == Container(<<>>, "", FALSE)

\* one parseContainer activation; start and count record where the call began
\* and how many headers it has read, leaves the leaf values it decoded
Frame(container, posDone, type, start) ==
  [container |-> container, posDone |-> posDone, tree |-> EmptyTree,
   type |-> type, start |-> start, count |-> 0, leaves |-> <<>>]

NoLast == [kind |-> "", name |-> "", len |-> <<>>, before |-> 0, after |-> 0,
           body |-> <<>>, value |-> Undefined]

\* ------------------------------------------------------ tokenizer reads
\* Each read yields [val, pos]: the value (or the error raised) and the
\* position afterwards.  A read that runs past the end of the stream raises
\* EndOfStream.
Outcome(val, pos) == [val |-> val, pos |-> pos]

\* StringType(len, 'utf-8').get: ASCII maps to itself, a byte that is not
\* part of a valid sequence decodes to U+FFFD
Utf8(bytes) == [i \in 1..Len(bytes) |-> IF bytes[i] < 128 THEN bytes[i] ELSE 65533]

readBuffer(pos, e) ==
  LET len == NumVal(e.len)
  IN IF pos + len <= fileSize
       THEN Outcome(Buf(SubSeq(data, pos + 1, pos + len)), pos + len)
       ELSE Outcome(Raise("EndOfStream"), pos)

readUint(pos, e) ==
  LET b == readBuffer(pos, e)
      len == NumVal(e.len)
      nrLen == Min(6, len)
  IN IF b.val.t = "raise" THEN { b }
     ELSE { Outcome(x, b.pos) : x \in readUIntBE(b.val.v, len - nrLen, nrLen) }

readFlag(pos, e) ==
  { IF o.val.t = "raise" THEN o ELSE Outcome(Bool(o.val = Num(<<1>>)), o.pos) :
      o \in readUint(pos, e) }

readString(pos, e) ==
  LET b == readBuffer(pos, e)
  IN IF b.val.t = "raise" THEN b ELSE Outcome(Str(Utf8(b.val.v)), b.pos)

\* tokenizer.readNumber(token): token.len bytes
readNumber(pos, fmt, len) ==
  IF pos + len <= fileSize
    THEN Outcome(Float(fmt, SubSeq(data, pos + 1, pos + len)), pos + len)
    ELSE Outcome(Raise("EndOfStream"), pos)

readFloat(pos, e) ==
  CASE e.len = <<>> -> Outcome(Float("zero", <<>>), pos)
    [] e.len = <<4>> -> readNumber(pos, "Float32_BE", 4)
    [] e.len = <<8>> -> readNumber(pos, "Float64_BE", 8)
    [] e.len = <<10>> -> readNumber(pos, "Float64_BE", 8)
    [] OTHER -> Outcome(Raise("InvalidFloatLength"), pos)

\* parserMap.get(type.value)(element), as registered by the constructor
parserMap(kind, pos, e) ==
  CASE kind = "uint" -> readUint(pos, e)
    [] kind = "string" -> { readString(pos, e) }
    [] kind = "binary" -> { readBuffer(pos, e) }
    [] kind = "uid" ->
         { IF o.val.t = "raise" THEN o ELSE Outcome(Bool(o.val = Num(<<1>>)), o.pos) :
             o \in readUint(pos, e) }
    [] kind = "bool" -> { readBuffer(pos, e) }
    [] kind = "float" -> { readFloat(pos, e) }

\* readElement without lenField[0] ^= 0x80 >> (lenField.length - 1)
readElementKeepMarker(id, lenBuf) ==
  LET nrLen == Min(6, Len(lenBuf))
  IN { [id |-> i, len |-> l] :
         i \in readUIntBE(id, 0, Len(id)),
         l \in readUIntBE(lenBuf, Len(lenBuf) - nrLen, nrLen) }

\* readElement after both vints are read: the marker bit of the length is
\* cleared, the id is read over its whole width, the length over at most its
\* last 6 bytes
readElement(id, lenBuf) ==
  LET lf == [lenBuf EXCEPT ![1] = BitXor(@, 128 \div (2 ^ (Len(lenBuf) - 1)))]
      nrLen == Min(6, Len(lf))
  IN { [id |-> i, len |-> l] :
         i \in readUIntBE(id, 0, Len(id)),
         l \in readUIntBE(lf, Len(lf) - nrLen, nrLen) }

\* --------------------------------------------------------------- actions
Fail(kind) == pc' = "error" /\ err' = kind

\* while (this.tokenizer.position < posDone)
ParseContainerLoop ==
  /\ pc = "loop"
  /\ pc' = IF position < Top.posDone THEN "peek" ELSE "return"
  /\ which' = "id"
  /\ UNCHANGED <<data, position, padding, stack, msb, mask, ic, idBuf,
                 lenField, element, matroska, sink, err, last>>

\* readVintData: peek the marker byte
ReadVintPeek ==
  /\ pc = "peek"
  /\ IF position < fileSize
       THEN /\ msb' = data[position + 1]
            /\ mask' = 128
            /\ ic' = 1
            /\ pc' = "width"
            /\ err' = err
       ELSE /\ Fail("EndOfStream")
            /\ UNCHANGED <<msb, mask, ic>>
  /\ UNCHANGED <<data, position, padding, stack, which, idBuf, lenField,
                 element, matroska, sink, last>>

\* readVintData: one turn of while ((msb & mask) === 0) { ++ic; mask >>= 1; }
\* The loop itself has no bound; the model follows it up to ic = MaxIc.
ReadVintWidth ==
  /\ pc = "width"
  /\ BitAnd(msb, mask) = 0
  /\ ic < MaxIc
  /\ ic' = ic + 1
  /\ mask' = mask \div 2
  /\ UNCHANGED <<data, position, padding, pc, stack, which, msb, idBuf,
                 lenField, element, matroska, sink, err, last>>

\* readVintData: the loop has ended; read ic bytes
ReadVintData ==
  /\ pc = "width"
  /\ BitAnd(msb, mask) # 0
  /\ IF position + ic <= fileSize
       THEN LET buf == SubSeq(data, position + 1, position + ic)
            IN /\ position' = position + ic
               /\ IF which = "id"
                    THEN idBuf' = buf /\ lenField' = lenField
                         /\ which' = "len" /\ pc' = "peek"
                    ELSE lenField' = buf /\ idBuf' = idBuf
                         /\ which' = which /\ pc' = "header"
               /\ err' = err
       ELSE /\ Fail("EndOfStream")
            /\ UNCHANGED <<position, idBuf, lenField, which>>
  /\ UNCHANGED <<data, padding, stack, msb, mask, ic, element, matroska,
                 sink, last>>

\* readElement: build the header from the two buffers
ReadElement ==
  /\ pc = "header"
  /\ \E h \in readElement(idBuf, lenField) :
       IF h.id.t = "raise"
         THEN Fail(h.id.v) /\ UNCHANGED <<element, stack>>
         ELSE /\ element' = [id |-> h.id.v, len |-> h.len.v]
              /\ stack' = [stack EXCEPT ![Len(stack)].count = @ + 1]
              /\ pc' = "dispatch"
              /\ err' = err
  /\ UNCHANGED <<data, position, padding, which, msb, mask, ic, idBuf,
                 lenField, matroska, sink, last>>

\* if (type.container): recurse into the nested schema
ParseContainerDescend ==
  /\ pc = "dispatch"
  /\ \E type \in Lookup(Top.container, element.id) :
       /\ type.kind = "container"
       /\ stack' = Append(stack, Frame(type.name, position + NumVal(element.len),
                                       type, position))
  /\ pc' = "loop"
  /\ UNCHANGED <<data, position, padding, which, msb, mask, ic, idBuf,
                 lenField, element, matroska, sink, err, last>>

\* else: tree[type.name] = await this.parserMap.get(type.value)(element)
ParseContainerLeaf ==
  /\ pc = "dispatch"
  /\ \E type \in Lookup(Top.container, element.id) :
       /\ type.kind # "container"
       /\ \E o \in parserMap(type.kind, position, element) :
            IF o.val.t = "raise"
              THEN Fail(o.val.v) /\ UNCHANGED <<position, stack, last>>
              ELSE /\ position' = o.pos
                   /\ stack' = [stack EXCEPT
                        ![Len(stack)].tree = Put(@, type.name, o.val),
                        ![Len(stack)].leaves = Append(@, <<type.name, o.val>>)]
                   /\ last' = [kind |-> type.kind, name |-> type.name,
                               len |-> element.len, before |-> position,
                               after |-> o.pos,
                               body |-> SubSeq(data, position + 1,
                                               Min(position + NumVal(element.len),
                                                   fileSize)),
                               value |-> o.val]
                   /\ pc' = "loop"
                   /\ err' = err
  /\ UNCHANGED <<data, padding, which, msb, mask, ic, idBuf, lenField,
                 element, matroska, sink>>

\* tokenizer.ignore(length): past the end of the stream a file or buffer
\* tokenizer stops at the end, a stream tokenizer raises EndOfStream
Ignore(len) ==
  IF position + len <= fileSize
    THEN position' = position + len /\ pc' = "loop" /\ err' = err
    ELSE \/ position' = fileSize /\ pc' = "loop" /\ err' = err
         \/ Fail("EndOfStream") /\ position' = position

\* case 0xec: void
ParseContainerVoid ==
  /\ pc = "dispatch"
  /\ Lookup(Top.container, element.id) = {}
  /\ element.id = <<\Hec>>
  /\ padding' = padding + NumVal(element.len)
  /\ Ignore(NumVal(element.len))
  /\ UNCHANGED <<data, stack, which, msb, mask, ic, idBuf, lenField,
                 element, matroska, sink, last>>

\* default: unknown element
ParseContainerUnknown ==
  /\ pc = "dispatch"
  /\ Lookup(Top.container, element.id) = {}
  /\ element.id # <<\Hec>>
  /\ padding' = padding + NumVal(element.len)
  /\ Ignore(NumVal(element.len))
  /\ UNCHANGED <<data, stack, which, msb, mask, ic, idBuf, lenField,
                 element, matroska, sink, last>>

\* return tree: a nested call hands its tree to the caller, which stores it
\* under type.name (appended when type.multiple); the outermost call hands
\* it to parse()
ParseContainerReturn ==
  /\ pc = "return"
  /\ IF Len(stack) = 1
       THEN /\ matroska' = Top.tree
            /\ pc' = "parse"
            /\ stack' = stack
       ELSE LET res == Top.tree
                type == Top.type
                caller == stack[Len(stack) - 1]
                stored ==
                  IF type.multiple
                    THEN IF Truthy(Get(caller.tree, type.name))
                           THEN List(Append(caller.tree[type.name].v, res))
                           ELSE List(<<res>>)
                    ELSE Node(res)
            IN /\ stack' = [SubSeq(stack, 1, Len(stack) - 1) EXCEPT
                              ![Len(stack) - 1].tree = Put(@, type.name, stored)]
               /\ pc' = "loop"
               /\ matroska' = matroska
  /\ UNCHANGED <<data, position, padding, which, msb, mask, ic, idBuf,
                 lenField, element, sink, err, last>>

\* ------------------------------------------------------ parse(): mapping
SetFormat(key, value) == [op |-> "setFormat", key |-> key, value |-> value]
\* this.addTag(tagId, value) -> metadata.addTag('matroska', tagId, value)
addTag(tagId, value) ==
  [op |-> "addTag", key |-> "matroska", value |-> [t |-> "tag", v |-> <<tagId, value>>]]

\* a value inside a template string
ToStr(x) ==
  IF x.t = "string" THEN x.v
  ELSE <<117, 110, 100, 101, 102, 105, 110, 101, 100>>   \* "undefined"

\* String.prototype.replace(pattern, ''): the first occurrence is removed
Replace(codes, pat) ==
  LET hits == { i \in 1..(Len(codes) - Len(pat) + 1) :
                  SubSeq(codes, i, i + Len(pat) - 1) = pat }
  IN IF hits = {} THEN codes
     ELSE LET i == CHOOSE h \in hits : \A g \in hits : h <= g
          IN SubSeq(codes, 1, i - 1) \o SubSeq(codes, i + Len(pat), Len(codes))

\* info.timecodeScale ? info.timecodeScale : 1000000, and the product
\* info.duration * timecodeScale / 1000000000, kept as its two operands
Duration(info) ==
  LET ts == Get(info, "timecodeScale")
      timecodeScale == IF Truthy(ts) THEN ts ELSE Num(<<\H0f, \H42, \H40>>)
  IN [t |-> "duration", v |-> <<Get(info, "duration"), timecodeScale>>]

\* the calls one tag entry makes, and the error that stops it ("" if none)
TagCalls(tag) ==
  LET target == Get(tag, "target")
      simpleTags == Get(tag, "simpleTags")
  IN IF ~Truthy(target) THEN [calls |-> <<>>, err |-> "TypeError"]
     ELSE LET ttv == Get(target.v, "targetTypeValue")
              tt == Get(target.v, "targetType")
              targetType == IF Truthy(ttv) THEN TargetType(ttv.v)
                            ELSE IF Truthy(tt) THEN tt ELSE TargetTypeAlbum
          IN IF ~Truthy(simpleTags) THEN [calls |-> <<>>, err |-> "TypeError"]
             ELSE [calls |->
                     [i \in 1..Len(simpleTags.v) |->
                        LET simpleTag == simpleTags.v[i]
                            str == Get(simpleTag, "string")
                            value == IF Truthy(str) THEN str
                                     ELSE Get(simpleTag, "binary")
                        IN addTag(ToStr(targetType) \o <<58>> \o
                                    ToStr(Get(simpleTag, "name")), value)],
                   err |-> ""]

\* matroska.segment.tags.tag.forEach(...), from entry i on
RECURSIVE ForEachTag(_, _)
ForEachTag(tags, i) ==
  IF i > Len(tags) THEN [calls |-> <<>>, err |-> ""]
  ELSE LET one == TagCalls(tags[i])
       IN IF one.err # "" THEN one
          ELSE LET rest == ForEachTag(tags, i + 1)
               IN [calls |-> one.calls \o rest.calls, err |-> rest.err]

Segment == Get(matroska, "segment")

\* setFormat('container', `EBML/${matroska.ebml.docType}`); if (matroska.segment)
ParseFormat ==
  /\ pc = "parse"
  /\ LET ebml == Get(matroska, "ebml")
     IN IF ~Truthy(ebml)
          THEN Fail("TypeError") /\ sink' = sink
          ELSE /\ sink' = Append(sink, SetFormat("container",
                            Str(<<69, 66, 77, 76, 47>> \o ToStr(Get(ebml.v, "docType")))))
               /\ pc' = IF Truthy(Segment) THEN "info" ELSE "done"
               /\ err' = err
  /\ UNCHANGED <<data, position, padding, stack, which, msb, mask, ic, idBuf,
                 lenField, element, matroska, last>>

\* ParseInfo without the guard if (info)
ParseInfoUnguarded ==
  /\ pc = "info"
  /\ LET info == Get(Segment.v, "info")
     IN sink' = Append(sink, SetFormat("duration",
                  Duration(IF Truthy(info) THEN info.v ELSE EmptyTree)))
  /\ pc' = "tracks"
  /\ UNCHANGED <<data, position, padding, stack, which, msb, mask, ic, idBuf,
                 lenField, element, matroska, err, last>>

\* const info = matroska.segment.info; if (info) { ... setFormat('duration') }
ParseInfo ==
  /\ pc = "info"
  /\ LET info == Get(Segment.v, "info")
     IN sink' = IF Truthy(info)
                  THEN Append(sink, SetFormat("duration", Duration(info.v)))
                  ELSE sink
  /\ pc' = "tracks"
  /\ UNCHANGED <<data, position, padding, stack, which, msb, mask, ic, idBuf,
                 lenField, element, matroska, err, last>>

\* if (audioTracks && audioTracks.entries) { filter; assert; setFormat x 3 }
ParseTracks ==
  /\ pc = "tracks"
  /\ LET audioTracks == Get(Segment.v, "tracks")
         all == IF Truthy(audioTracks) THEN Get(audioTracks.v, "entries")
                ELSE Undefined
     IN IF ~Truthy(all)
          THEN pc' = "done" /\ UNCHANGED <<sink, err>>
          ELSE LET IsAudio(entry) == Get(entry, "trackType") = Num(TrackTypeAudio)
                   entries == SelectSeq(all.v, IsAudio)
               IN IF Len(entries) # 1
                    THEN Fail("AssertionError") /\ sink' = sink
                    ELSE LET audioTrack == entries[1]
                             codecID == Get(audioTrack, "codecID")
                             audio == Get(audioTrack, "audio")
                             codec == SetFormat("codec",
                                        Str(Replace(codecID.v, <<65, 95>>)))
                         IN IF codecID.t # "string"
                              THEN Fail("TypeError") /\ sink' = sink
                              ELSE IF ~Truthy(audio)
                                THEN Fail("TypeError")
                                     /\ sink' = Append(sink, codec)
                                ELSE /\ sink' = sink \o
                                          <<codec,
                                            SetFormat("sampleRate",
                                              Get(audio.v, "samplingFrequency")),
                                            SetFormat("numberOfChannels",
                                              Get(audio.v, "channels"))>>
                                     /\ pc' = "tags"
                                     /\ err' = err
  /\ UNCHANGED <<data, position, padding, stack, which, msb, mask, ic, idBuf,
                 lenField, element, matroska, last>>

\* if (matroska.segment.tags) { matroska.segment.tags.tag.forEach(...) }
ParseTags ==
  /\ pc = "tags"
  /\ LET tags == Get(Segment.v, "tags")
     IN IF ~Truthy(tags)
          THEN pc' = "done" /\ UNCHANGED <<sink, err>>
          ELSE LET tag == Get(tags.v, "tag")
               IN IF ~Truthy(tag)
                    THEN Fail("TypeError") /\ sink' = sink
                    ELSE LET r == ForEachTag(tag.v, 1)
                         IN /\ sink' = sink \o r.calls
                            /\ IF r.err # "" THEN Fail(r.err)
                               ELSE pc' = "done" /\ err' = err
  /\ UNCHANGED <<data, position, padding, stack, which, msb, mask, ic, idBuf,
                 lenField, element, matroska, last>>

\* ------------------------------------------------------ input documents
\* Streams are built element by element: id bytes, a length vint, the body.
LenVint(n) == IF n < 127 THEN <<128 + n>> ELSE <<64 + (n \div 256), n % 256>>
RawEl(id, declared, body) == id \o LenVint(declared) \o body
El(id, body) == RawEl(id, Len(body), body)
IdOf(container, name) == (CHOOSE n \in elements(container) : n.name = name).id
E(container, name, body) == El(IdOf(container, name), body)

RECURSIVE Flatten(_)
Flatten(seqs) == IF seqs = <<>> THEN <<>> ELSE Head(seqs) \o Flatten(Tail(seqs))
SeqsUpTo(S, n) == UNION { [1..k -> S] : k \in 0..n }
Zeros(n) == [i \in 1..n |-> 0]

Float4 == <<\H47, \H3b, \H80, 0>>
Float8 == <<\H40, \Hc3, \H88, 0, 0, 0, 0, 0>>
Webm == <<119, 101, 98, 109>>
Opus == <<65, 95, 79, 80, 85, 83>>
Vp8 == <<86, 95, 86, 80, 56>>
Title == <<84, 73, 84, 76, 69>>

EbmlHeader == E("elements", "ebml", E("ebml", "docType", Webm))

InfoOpts ==
  { <<>>,
    E("segment", "info", <<>>),
    E("segment", "info", E("info", "duration", Float4)),
    E("segment", "info", E("info", "timecodeScale", <<\H0f, \H42, \H40>>)
                         \o E("info", "duration", Float8)),
    E("segment", "info", E("info", "timecodeScale", <<0>>)
                         \o E("info", "duration", <<>>)),
    E("segment", "info", E("info", "duration", Zeros(3))) }

Audio == E("entries", "audio", E("audio", "samplingFrequency", Float4)
                               \o E("audio", "channels", <<2>>))
TrackBytes(kind) ==
  CASE kind = "audio" -> E("entries", "trackType", <<2>>)
                         \o E("entries", "codecID", Opus) \o Audio
    [] kind = "video" -> E("entries", "trackType", <<1>>)
                         \o E("entries", "codecID", Vp8)
    [] kind = "audioNoCodec" -> E("entries", "trackType", <<2>>) \o Audio
    [] kind = "audioNoAudio" -> E("entries", "codecID", Opus)
                                \o E("entries", "trackType", <<0, 2>>)
TrackKinds == {"audio", "video", "audioNoCodec", "audioNoAudio"}
Tracks(kinds) ==
  E("segment", "tracks",
    Flatten([i \in 1..Len(kinds) |-> E("tracks", "entries", TrackBytes(kinds[i]))]))
TracksOpts == { <<>> } \cup { Tracks(k) : k \in SeqsUpTo(TrackKinds, MaxTracks) }

SimpleTag(body) == E("tag", "simpleTags", body)
TagBytes(kind) ==
  CASE kind = "track" ->
         E("tag", "target", E("target", "targetTypeValue", <<30>>))
         \o SimpleTag(E("simpleTags", "name", Title)
                      \o E("simpleTags", "string", <<120>>))
    [] kind = "named" ->
         E("tag", "target", E("target", "targetType", <<68, 73, 83, 67>>)
                            \o E("target", "tagTrackUID", <<1>>)
                            \o E("target", "tagTrackUID", <<2>>))
         \o SimpleTag(E("simpleTags", "name", <<65>>)
                      \o E("simpleTags", "binary", <<1, 2>>))
    [] kind = "default" ->
         E("tag", "target", E("target", "targetTypeValue", <<>>))
         \o SimpleTag(E("simpleTags", "name", <<66>>)
                      \o E("simpleTags", "string", <<>>)
                      \o E("simpleTags", "binary", <<7>>))
         \o SimpleTag(E("simpleTags", "string", <<121>>)
                      \o E("simpleTags", "default", <<1>>))
    [] kind = "noTarget" ->
         SimpleTag(E("simpleTags", "name", <<67>>)
                   \o E("simpleTags", "string", <<122>>))
    [] kind = "unlisted" ->
         E("tag", "target", E("target", "targetTypeValue", <<99>>))
TagKinds == {"track", "named", "default", "noTarget", "unlisted"}
Tags(kinds) ==
  E("segment", "tags",
    Flatten([i \in 1..Len(kinds) |-> E("tags", "tag", TagBytes(kinds[i]))]))
TagsOpts == { <<>> } \cup { Tags(k) : k \in SeqsUpTo(TagKinds, MaxTags) }

Document(info, tracks, tags) ==
  EbmlHeader \o E("elements", "segment", info \o tracks \o tags)

\* documents varying one substructure at a time
MappingDocs ==
  { Document(i, tr, tg) :
      i \in InfoOpts,
      tr \in {<<>>, Tracks(<<"audio">>), Tracks(<<"video">>)},
      tg \in {<<>>, Tags(<<"track">>)} }
  \cup { Document(<<>>, tr, tg) : tr \in TracksOpts, tg \in {<<>>, Tags(<<"track">>)} }
  \cup { Document(<<>>, tr, tg) :
           tr \in {<<>>, Tracks(<<>>), Tracks(<<"audio">>)}, tg \in TagsOpts }
  \cup { <<>>, EbmlHeader, E("elements", "ebml", <<>>),
         E("elements", "segment", <<>>) }

\* headers: vints of every width, with bits above and below bit 48; a sample
\* is used when its first byte has exactly w - 1 leading zero bits (or is 0)
Marker(w) == 128 \div (2 ^ (w - 1))
VintSample(w, hi, b2, lo) ==
  [i \in 1..w |-> IF i = 1 THEN Marker(w) + hi
                  ELSE IF i = w THEN lo
                  ELSE IF i = 2 THEN b2 ELSE 0]
VintSamples ==
  { VintSample(w, hi, b2, lo) :
      w \in 1..8, hi \in {0, 1, 2}, b2 \in {0, 255}, lo \in {0, 3} }
  \cup { <<0>>, <<255>>, <<\H40, \H7f>> }
Filler == <<\Hec, \H80, \Hec, \H80>>
HeaderDocs ==
  { id \o len \o Filler :
      id \in { v \in VintSamples : v[1] = 0 \/ v[1] < 2 * Marker(Len(v)) },
      len \in { <<\H80>>, <<\H82>> } }
  \cup { id \o len \o Filler :
           id \in { <<\Hec>>, <<\H42, \H86>> },
           len \in { v \in VintSamples : v[1] = 0 \/ v[1] < 2 * Marker(Len(v)) } }

\* leaves: bodies of every length for each value type
Body(n, first, final) ==
  [i \in 1..n |-> IF i = n THEN final ELSE IF i = 1 THEN first ELSE 0]
LeafBodies == { Body(n, f, l) : n \in 0..MaxBody, f \in {0, 1}, l \in {0, 1, 2} }
LeafDoc(kind, body) ==
  CASE kind = "uint" -> E("elements", "ebml", E("ebml", "ebmlVersion", body))
    [] kind = "string" -> E("elements", "ebml", E("ebml", "docType", body))
    [] kind = "uid" ->
         Document(E("segment", "info", E("info", "uid", body)), <<>>, <<>>)
    [] kind = "float" ->
         Document(E("segment", "info", E("info", "duration", body)), <<>>, <<>>)
    [] kind = "bool" ->
         Document(<<>>, E("segment", "tracks",
                          E("tracks", "entries", E("entries", "flagDefault", body))),
                  <<>>)
    [] kind = "binary" ->
         Document(<<>>, <<>>,
                  E("segment", "tags",
                    E("tags", "tag", SimpleTag(E("simpleTags", "binary", body)))))
LeafKinds == {"uint", "string", "uid", "float", "bool", "binary"}
LeafDocs == { LeafDoc(k, b) : k \in LeafKinds, b \in LeafBodies }

\* structure: declared lengths that do not match the children, unknown ids,
\* repeated leaves, a 10-byte float followed by more elements
Void(n) == El(<<\Hec>>, Zeros(n))
StructureDocs ==
  { Document(RawEl(IdOf("segment", "info"), n, E("info", "duration", Float4)),
             tr, <<>>) :
      n \in {2, 4, 6, 7}, tr \in {<<>>, Tracks(<<"audio">>)} }
  \cup { Document(<<>>,
                  RawEl(IdOf("segment", "tracks"), n,
                        E("tracks", "entries", TrackBytes("audio"))),
                  tg) : n \in {1, 3, 26}, tg \in {<<>>, Tags(<<"track">>)} }
  \cup { Document(RawEl(IdOf("segment", "info"), n, Void(2)),
                  Tracks(<<"audio">>), <<>>) : n \in {1, 2, 4} }
  \cup { EbmlHeader \o RawEl(IdOf("elements", "segment"), n,
                             E("segment", "info", E("info", "duration", Float4))) :
           n \in {5, 12, 13, 40} }
  \cup { Document(E("segment", "info",
                    E("info", "duration", Zeros(8) \o tail) \o more),
                  Tracks(<<"audio">>), <<>>) :
           tail \in { <<\Hec, \H80>>, <<\Hec, \H81>>, <<\H44, \H89>>, <<\H80, \H80>> },
           more \in { <<>>, Void(1), E("info", "uid", <<1>>) } }
  \cup { Document(E("segment", "info", a \o b \o c), <<>>, <<>>) :
           a \in { E("info", "duration", Float4), Void(1) },
           b \in { E("info", "duration", Float8), El(<<\H55, \Haa>>, <<1, 2>>) },
           c \in { <<>>, E("info", "uid", <<0, 1>>) } }
  \cup { IdOf("elements", "ebml") \o <<\H40, 7>> \o E("ebml", "docType", Webm),
         EbmlHeader \o Void(3) \o E("elements", "segment", Void(0)) }

Documents == MappingDocs \cup HeaderDocs \cup LeafDocs \cup StructureDocs

\* ---------------------------------------------------------- specification
\* parse() has just been called on a fresh parser over one of the documents
Init ==
  /\ data \in Documents
  /\ position = 0
  /\ padding = 0
  /\ pc = "loop"
  /\ stack = <<Frame("elements", Len(data), RootType, 0)>>
  /\ which = "id"
  /\ msb = 0 /\ mask = 0 /\ ic = 0
  /\ idBuf = <<>> /\ lenField = <<>>
  /\ element = [id |-> <<>>, len |-> <<>>]
  /\ matroska = EmptyTree
  /\ sink = <<>>
  /\ err = ""
  /\ last = NoLast

Next ==
  \/ ParseContainerLoop
  \/ ReadVintPeek
  \/ ReadVintWidth
  \/ ReadVintData
  \/ ReadElement
  \/ ParseContainerDescend
  \/ ParseContainerLeaf
  \/ ParseContainerVoid
  \/ ParseContainerUnknown
  \/ ParseContainerReturn
  \/ ParseFormat
  \/ ParseInfo
  \/ ParseTracks
  \/ ParseTags

Spec == Init /\ [][Next]_vars

TypeOK ==
  /\ pc \in {"loop", "peek", "width", "header", "dispatch", "return",
             "parse", "info", "tracks", "tags", "done", "error"}
  /\ (pc = "error") = (err # "")
  /\ position \in 0..Len(data)
  /\ Len(stack) >= 1

\* =================================================================== claims
\* helpers of the statements: a header decoded directly from the bytes
LeadZeros(b) ==
  IF b >= 128 THEN 0 ELSE IF b >= 64 THEN 1 ELSE IF b >= 32 THEN 2
  ELSE IF b >= 16 THEN 3 ELSE IF b >= 8 THEN 4 ELSE IF b >= 4 THEN 5
  ELSE IF b >= 2 THEN 6 ELSE IF b >= 1 THEN 7 ELSE 8
Low48(bytes) == IF Len(bytes) > 6 THEN SubSeq(bytes, Len(bytes) - 5, Len(bytes)) ELSE bytes
Unmarked(bytes) == [bytes EXCEPT ![1] = @ - Marker(Len(bytes))]
HeaderStart == position - Len(idBuf) - Len(lenField)

\* is there a whole vint at offset p, and how wide
VintAt(p) ==
  IF p < fileSize /\ data[p + 1] # 0 /\ p + LeadZeros(data[p + 1]) + 1 <= fileSize
    THEN LeadZeros(data[p + 1]) + 1 ELSE 0
HeaderAt(p) ==
  LET w1 == VintAt(p)
      w2 == IF w1 = 0 THEN 0 ELSE VintAt(p + w1)
  IN IF w2 = 0 THEN [ok |-> FALSE, id |-> <<>>, len |-> 0, size |-> 0]
     ELSE [ok |-> TRUE, id |-> SubSeq(data, p + 1, p + w1),
           len |-> NumVal(Strip(Unmarked(SubSeq(data, p + w1 + 1, p + w1 + w2)))),
           size |-> w1 + w2]

\* the span [from, to) holds whole elements, at every nesting level
RECURSIVE WellFormed(_, _, _)
WellFormed(from, to, container) ==
  IF from = to THEN TRUE
  ELSE LET h == HeaderAt(from)
           body == from + h.size
       IN /\ h.ok
          /\ body + h.len <= to
          /\ \A n \in Lookup(container, h.id) :
               n.kind = "container" => WellFormed(body, body + h.len, n.name)
          /\ WellFormed(body + h.len, to, container)

\* C1: an element whose declared length crosses the end offset of the
\* parseContainer call reading it aborts the parse: the step taken on its header
\* is the error, and no call returns with the cursor beyond its end offset.
\* (The first part is stated for elements that lie inside the stream, where
\* nothing but the parser itself can stop the parse.)
C1_OvershootAborts ==
  [][ /\ (pc = "dispatch" /\ NumVal(element.len) > Top.posDone - position
            /\ position + NumVal(element.len) <= fileSize)
          => pc' = "error"
      /\ pc' = "return" => position' <= Top'.posDone ]_vars

\* C2 (as stated): whenever parse() ends in one of the fatal conditions the sink
\* has received no call at all.
C2_NoCallsOnFatal ==
  err \in {"EndOfStream", "InvalidFloatLength", "AssertionError"} => sink = <<>>

\* C2 (amended): a parse that ends in an error raised while the stream is read
\* has made no sink call; one that ends in the single-audio-track assertion
\* has made the container call, the duration call if segment/info exists,
\* and nothing else.
C2_PartialOnFatal ==
  /\ err \in {"EndOfStream", "InvalidFloatLength", "RangeError"} => sink = <<>>
  /\ err = "AssertionError" =>
       /\ Len(sink) = (IF Truthy(Get(Segment.v, "info")) THEN 2 ELSE 1)
       /\ sink[1].op = "setFormat" /\ sink[1].key = "container"
       /\ Len(sink) = 2 => sink[2].op = "setFormat" /\ sink[2].key = "duration"

C2_Witness == err = "AssertionError" /\ Len(sink) = 2

HasTracks == Truthy(Segment) /\ Truthy(Get(Segment.v, "tracks"))
AudioCount ==
  LET all == Get(Get(Segment.v, "tracks").v, "entries")
  IN IF ~Truthy(all) THEN 0
     ELSE Cardinality({ i \in 1..Len(all.v) :
                          Get(all.v[i], "trackType") = Num(<<2>>) })
Emitted(key) == \E i \in 1..Len(sink) : sink[i].op = "setFormat" /\ sink[i].key = key

\* C3: with a segment/tracks substructure, extraction succeeds only with exactly
\* one audio entry; with zero or several it fails and emits no codec,
\* sampleRate or numberOfChannels.
C3_SingleAudioTrack ==
  (pc \in {"done", "error"} /\ matroska # EmptyTree /\ HasTracks /\ AudioCount # 1)
    => /\ err = "AssertionError"
       /\ ~Emitted("codec") /\ ~Emitted("sampleRate") /\ ~Emitted("numberOfChannels")

HasTags == Truthy(Segment) /\ Truthy(Get(Segment.v, "tags"))
TagsOf == Get(Get(Segment.v, "tags").v, "tag")

\* C4: with a segment/tags substructure and a successful extraction, the addTag
\* calls are exactly one per simple tag of every tag entry, in document order,
\* with or without tracks and info.
C4_TagsEmitted ==
  (pc = "done" /\ HasTags /\ Truthy(TagsOf) /\ ForEachTag(TagsOf.v, 1).err = "")
    => SelectSeq(sink, LAMBDA c : c.op = "addTag") = ForEachTag(TagsOf.v, 1).calls

\* C5: on a marker byte 0x00 the width loop ends within 8 mask positions and the
\* read raises a decode error.
C5_ZeroMarkerEnds ==
  (pc = "width" /\ msb = 0) => ic <= 8

\* C6: a leaf decoder that accepts the header advances the cursor by exactly
\* header.length.
C6_LeafAdvance ==
  last.kind # "" => last.after = last.before + NumVal(last.len)

\* C7: when a parseContainer call returns, a repeatable leaf field holds all
\* its occurrences in document order, any other leaf field the last one.
C7_LeafStorage ==
  pc = "return" =>
    \A n \in elements(Top.container) :
      LET occ == SelectSeq(Top.leaves, LAMBDA l : l[1] = n.name)
      IN (n.kind # "container" /\ occ # <<>>) =>
           Get(Top.tree, n.name) =
             (IF n.multiple THEN List([i \in 1..Len(occ) |-> occ[i][2]])
              ELSE occ[Len(occ)][2])

\* C8: a Flag or Uid leaf is stored as the boolean "body, read as a big-endian
\* unsigned integer (over its low-order 48 bits), equals 1".
C8_FlagIsBoolean ==
  last.kind \in {"bool", "uid"} =>
    last.value = Bool(Strip(Low48(last.body)) = <<1>>)

\* C9: a parseContainer call over a well formed span returns with the cursor at
\* its end offset and at most one field per child element.
C9_Containment ==
  (pc = "return" /\ WellFormed(Top.start, Top.posDone, Top.container))
    => /\ position = Top.posDone
       /\ Cardinality(DOMAIN Top.tree) <= Top.count

====
